---- MODULE Spec2Model ----
(***************************************************************************)
(* Ros2RangeFinder (webots_ros2_driver/src/plugins/static/                 *)
(* Ros2RangeFinder.cpp): the range-finder plugin of the Webots ROS 2       *)
(* driver.  init() builds the image, camera-info and point-cloud messages  *)
(* and publishes the camera info; step() runs once per simulation step,    *)
(* publishes the depth image and the back-projected point cloud while the  *)
(* device is enabled, and enables or disables the device on demand.        *)
(*                                                                         *)
(* Floating-point values are modelled as exact signed rationals with the   *)
(* IEEE special values (signed zero, +-inf, NaN); rounding is not          *)
(* modelled, so the arithmetic agrees with the C++ float/double arithmetic *)
(* wherever the result is representable.                                   *)
(***************************************************************************)
EXTENDS Integers, Sequences, FiniteSets, TLC

VARIABLES
  pc,                  \* "constructed" | "ready" | "aborted"
  sensor,              \* the Webots device behind mRangeFinder
  mAlwaysOn,           \* Ros2SensorPlugin::mAlwaysOn
  mIsEnabled,          \* Ros2RangeFinder::mIsEnabled
  mImageMessage,       \* sensor_msgs::msg::Image
  mCameraInfoMessage,  \* sensor_msgs::msg::CameraInfo
  mPointCloudMessage,  \* sensor_msgs::msg::PointCloud2
  now,                 \* mNode->get_clock()->now(), in simulation steps
  cmds,                \* enable()/disable() calls made on the device, in order
  infoPublished,       \* number of camera-info messages published
  last,                \* what the latest step() call did
  matched,             \* how far the counts read so far follow DemandScenario
  demand,              \* consumerCount > 0 as last read by step()
  changes              \* number of reads that found the demand changed

vars == <<pc, sensor, mAlwaysOn, mIsEnabled, mImageMessage, mCameraInfoMessage,
          mPointCloudMessage, now, cmds, infoPublished, last, matched,
          demand, changes>>

---------------------------------------------------------------------------
(* Bounds of the model.                                                    *)

MaxWidth == 2
MaxHeight == 2
MaxCalDim == 4
MaxTicks == 5

Widths == 1..MaxWidth
Heights == 1..MaxHeight
ImageCounts == {0, 1, 3}
OtherCounts == {<<0, 0>>, <<2, 1>>}

\* The field of view is represented by tan(0.5 * fov) as a rational <<n, d>>:
\* fov = 0 and fov = pi/2.
FovTans == {<<0, 1>>, <<1, 1>>}

\* The consumer counts of the activation scenario.
DemandScenario == <<0, 0, 3, 3, 0>>

---------------------------------------------------------------------------
(* float / double values.                                                  *)

RECURSIVE GCD(_, _)
GCD(a, b) == IF b = 0 THEN a ELSE GCD(b, a % b)

Fin(s, n, d) ==
  LET g == GCD(n, d)
  IN  [k |-> "fin", s |-> s, n |-> n \div g, d |-> d \div g]
Inf(s) == [k |-> "inf", s |-> s, n |-> 0, d |-> 1]
NaN == [k |-> "nan", s |-> 0, n |-> 0, d |-> 1]

Zero == Fin(0, 0, 1)
One == Fin(0, 1, 1)
Half == Fin(0, 1, 2)

IsZero(a) == a.k = "fin" /\ a.n = 0
Xor(s, t) == (s + t) % 2

\* (float)i
FInt(i) == IF i < 0 THEN Fin(1, -i, 1) ELSE Fin(0, i, 1)

\* -a
FNeg(a) == IF a.k = "nan" THEN NaN ELSE [a EXCEPT !.s = 1 - a.s]

\* a * b
FMul(a, b) ==
  IF a.k = "nan" \/ b.k = "nan" THEN NaN
  ELSE IF a.k = "inf" \/ b.k = "inf"
       THEN IF IsZero(a) \/ IsZero(b) THEN NaN ELSE Inf(Xor(a.s, b.s))
       ELSE Fin(Xor(a.s, b.s), a.n * b.n, a.d * b.d)

\* a / b
FDiv(a, b) ==
  IF a.k = "nan" \/ b.k = "nan" THEN NaN
  ELSE IF a.k = "inf"
       THEN IF b.k = "inf" THEN NaN ELSE Inf(Xor(a.s, b.s))
       ELSE IF b.k = "inf" THEN Fin(Xor(a.s, b.s), 0, 1)
       ELSE IF IsZero(b)
            THEN IF IsZero(a) THEN NaN ELSE Inf(Xor(a.s, b.s))
            ELSE Fin(Xor(a.s, b.s), a.n * b.d, a.d * b.n)

\* a - b (an exact zero difference is +0)
FSub(a, b) ==
  IF a.k = "nan" \/ b.k = "nan" THEN NaN
  ELSE IF a.k = "inf"
       THEN IF b.k = "inf" /\ b.s = a.s THEN NaN ELSE a
       ELSE IF b.k = "inf" THEN FNeg(b)
       ELSE LET sa == IF a.s = 1 THEN -a.n ELSE a.n
                sb == IF b.s = 1 THEN -b.n ELSE b.n
                num == sa * b.d - sb * a.d
            IN  IF num = 0 /\ a.s = 1 /\ b.s = 0 /\ IsZero(a) THEN Fin(1, 0, 1)
                ELSE IF num < 0 THEN Fin(1, -num, a.d * b.d)
                ELSE Fin(0, num, a.d * b.d)

\* a == b on floats
FEq(a, b) == a.k # "nan" /\ b.k # "nan" /\ (a = b \/ (IsZero(a) /\ IsZero(b)))

Zeros(n) == [i \in 1..n |-> Zero]

---------------------------------------------------------------------------
(* The device: webots::RangeFinder, owned by the simulator.                *)

\* Range images the simulator may hold, as n = width * height floats in
\* metres: every pixel 2; or pixel 0 out of range (+inf), pixel 1 at 0 and
\* pixel idx at idx from there on.
FrameKinds == {"flat", "mixed"}
Frame(kind, n) ==
  [p \in 1..n |->
     IF kind = "flat" THEN FInt(2)
     ELSE IF p = 1 THEN Inf(0) ELSE IF p = 2 THEN Zero ELSE FInt(p - 1)]

\* tan(0.5 * mRangeFinder->getFov())
TanHalfFov(dev) == Fin(0, dev.fovTan[1], dev.fovTan[2])

\* One mRangeFinder->getRangeImage() call: a pointer to the current range
\* image, or NULL.
NotCalled == [res |-> "notcalled", px |-> <<>>]
getRangeImage(avail, frame) ==
  IF avail THEN [res |-> "buffer", px |-> frame] ELSE [res |-> "null", px |-> <<>>]

\* Subscription counts of the image, point-cloud and camera-info topics.
NoSubs == [image |-> 0, cloud |-> 0, info |-> 0]
SubsSet == {[image |-> c, cloud |-> o[1], info |-> o[2]] : c \in ImageCounts, o \in OtherCounts}

---------------------------------------------------------------------------
(* Ros2RangeFinder::init                                                   *)

DefaultImage == [height |-> 0, width |-> 0, step |-> 0, is_bigendian |-> FALSE,
                 encoding |-> "", data |-> <<>>, stamp |-> 0]
DefaultCameraInfo == [height |-> 0, width |-> 0, distortion_model |-> "",
                      d |-> <<>>, r |-> Zeros(9), k |-> Zeros(9), p |-> Zeros(12),
                      stamp |-> 0]
DefaultPointCloud == [height |-> 0, width |-> 0, point_step |-> 0, row_step |-> 0,
                      is_bigendian |-> FALSE, fields |-> <<>>, data |-> <<>>,
                      stamp |-> 0]
NoStep == [ran |-> FALSE, wasEnabled |-> FALSE, subs |-> NoSubs, read |-> -1,
           q1 |-> NotCalled, q2 |-> NotCalled, ev |-> <<>>, over |-> "none"]

\* 0.5 * dim * (1 / tan(0.5 * fov))
FocalLength(dim, tanHalf) == FMul(FMul(Half, FInt(dim)), FDiv(One, tanHalf))

\* Faulty variant: the division is done on the integers.
PrincipalPointTruncated(dim) == FInt(dim \div 2)

\* (double)dim / 2
PrincipalPoint(dim) == FDiv(FInt(dim), FInt(2))

\* Faulty variant: the row length counts pixels, not bytes.
InitImageStepPixels(width, height) ==
  [height |-> height, width |-> width, step |-> width,
   is_bigendian |-> FALSE, encoding |-> "32FC1",
   data |-> Zeros((4 * width * height) \div 4), stamp |-> 0]

InitImage(width, height) ==
  [height |-> height, width |-> width, step |-> 1 * 4 * width,
   is_bigendian |-> FALSE, encoding |-> "32FC1",
   data |-> Zeros((4 * width * height) \div 4), stamp |-> 0]

InitCameraInfo(width, height, tanHalf, t) ==
  LET focalLengthX == FocalLength(width, tanHalf)
      focalLengthY == FocalLength(height, tanHalf)
  IN  [height |-> height, width |-> width, distortion_model |-> "plumb_bob",
       d |-> Zeros(5),
       r |-> <<One, Zero, Zero, Zero, One, Zero, Zero, Zero, One>>,
       k |-> <<focalLengthX, Zero, PrincipalPoint(width),
               Zero, focalLengthY, PrincipalPoint(height),
               Zero, Zero, One>>,
       p |-> <<focalLengthX, Zero, PrincipalPoint(width), Zero,
               Zero, focalLengthY, PrincipalPoint(height), Zero,
               Zero, Zero, One, Zero>>,
       stamp |-> t]

InitPointCloud(width, height) ==
  [height |-> height, width |-> width, point_step |-> 12, row_step |-> width * 12,
   is_bigendian |-> FALSE,
   fields |-> << [name |-> "x", offset |-> 0, datatype |-> "FLOAT32", count |-> 1],
                 [name |-> "y", offset |-> 4, datatype |-> "FLOAT32", count |-> 1],
                 [name |-> "z", offset |-> 8, datatype |-> "FLOAT32", count |-> 1] >>,
   data |-> Zeros((width * 12 * height) \div 4), stamp |-> 0]

\* if (mAlwaysOn) { mRangeFinder->enable(...); mIsEnabled = true; }
InitActivation(alwaysOn) ==
  IF alwaysOn THEN [en |-> TRUE, ev |-> <<"enable">>]
  ELSE [en |-> FALSE, ev |-> <<>>]

\* The effect of a command sequence on the device.
Apply(dev, ev) ==
  IF ev = <<>> THEN dev
  ELSE [dev EXCEPT !.enabled = (ev[Len(ev)] = "enable")]

\* assert(mRangeFinder != NULL) fails; without assertions the first use of
\* the null handle is undefined and the process dies there.
InitNullHandle(alwaysOn) ==
  /\ pc' \in {"aborted", "crashed"}
  /\ mAlwaysOn' = alwaysOn
  /\ mIsEnabled' = FALSE
  /\ UNCHANGED <<sensor, mImageMessage, mCameraInfoMessage, mPointCloudMessage,
                 now, cmds, infoPublished, last, matched, demand, changes>>

init ==
  /\ pc = "constructed"
  /\ \E alwaysOn \in BOOLEAN :
       IF sensor.isNull
       THEN InitNullHandle(alwaysOn)
       ELSE LET width == sensor.width
                height == sensor.height
                act == InitActivation(alwaysOn)
            IN  /\ pc' = "ready"
                /\ mAlwaysOn' = alwaysOn
                /\ mImageMessage' = InitImage(width, height)
                /\ mCameraInfoMessage' =
                     InitCameraInfo(width, height, TanHalfFov(sensor), now)
                /\ infoPublished' = infoPublished + 1
                /\ mPointCloudMessage' = InitPointCloud(width, height)
                /\ mIsEnabled' = act.en
                /\ cmds' = cmds \o act.ev
                /\ sensor' = Apply(sensor, act.ev)
                /\ UNCHANGED <<now, last, matched, demand, changes>>

---------------------------------------------------------------------------
(* Ros2RangeFinder::publishImage                                           *)

\* memcpy(dst, image, nbytes) on float arrays: the first nbytes / 4 floats.
Memcpy(image, nbytes) == [p \in 1..(nbytes \div 4) |-> image[p]]

\* mImageMessage.data.size(), in bytes
DataSize(msg) == 4 * Len(msg.data)

\* Faulty variant: the stamp is set before the null check.
publishImageStampFirst(image, msg, t) ==
  IF image.res = "buffer"
  THEN [msg |-> [msg EXCEPT !.stamp = t,
                            !.data = Memcpy(image.px, DataSize(msg))],
        ev |-> <<"image">>]
  ELSE [msg |-> [msg EXCEPT !.stamp = t], ev |-> <<>>]

\* Faulty variant: the ranges are converted to millimetres on the way.
publishImageScaled(image, msg, t) ==
  IF image.res = "buffer"
  THEN [msg |-> [msg EXCEPT !.stamp = t,
                            !.data = [p \in 1..Len(msg.data) |->
                                        FMul(image.px[p], FInt(1000))]],
        ev |-> <<"image">>]
  ELSE [msg |-> msg, ev |-> <<>>]

publishImage(image, msg, t) ==
  IF image.res = "buffer"
  THEN [msg |-> [msg EXCEPT !.stamp = t,
                            !.data = Memcpy(image.px, DataSize(msg))],
        ev |-> <<"image">>]
  ELSE [msg |-> msg, ev |-> <<>>]

---------------------------------------------------------------------------
(* Ros2RangeFinder::publishPointCloud                                      *)

\* Faulty variant: the lateral offsets are not sign-flipped.
PointNoFlip(image, width, i, j, cx, cy, fx, fy) ==
  LET idx == i + j * width
      x == image[idx + 1]
      y == FDiv(FMul(FSub(FInt(i), cx), x), fx)
      z == FDiv(FMul(FSub(FInt(j), cy), x), fy)
  IN  <<x, y, z>>

\* The point of pixel (i, j):
\*   x = image[idx];  y = -(i - cx) * x / fx;  z = -(j - cy) * x / fy
Point(image, width, i, j, cx, cy, fx, fy) ==
  LET idx == i + j * width
      x == image[idx + 1]
      y == FDiv(FMul(FNeg(FSub(FInt(i), cx)), x), fx)
      z == FDiv(FMul(FNeg(FSub(FInt(j), cy)), x), fy)
  IN  <<x, y, z>>

\* Faulty variant: the z component lands on the y slot.
PointSlotsOverlap(idx) == <<idx * 3, idx * 3 + 1, idx * 3 + 1>>

\* The float offsets data + idx * 3, data + idx * 3 + 1, data + idx * 3 + 2
\* the three memcpy calls of one pixel write to.
PointSlots(idx) == <<idx * 3, idx * 3 + 1, idx * 3 + 2>>

\* Faulty variant: x and y stored in each other's slot.
StorePointSwapped(data, idx, pt) ==
  [data EXCEPT ![idx * 3 + 1] = pt[2],
               ![idx * 3 + 1 + 1] = pt[1],
               ![idx * 3 + 2 + 1] = pt[3]]

\* Faulty variant: a pixel out of range is skipped, its slot left as it was.
StorePointSkipInf(data, idx, pt) ==
  IF pt[1].k # "fin" THEN data
  ELSE [data EXCEPT ![PointSlots(idx)[1] + 1] = pt[1],
                    ![PointSlots(idx)[2] + 1] = pt[2],
                    ![PointSlots(idx)[3] + 1] = pt[3]]

\* The three memcpy calls of one pixel into the float view of the data.
StorePoint(data, idx, pt) ==
  [data EXCEPT ![PointSlots(idx)[1] + 1] = pt[1],
               ![PointSlots(idx)[2] + 1] = pt[2],
               ![PointSlots(idx)[3] + 1] = pt[3]]

\* for (j = 0; j < height; j++) for (i = 0; i < width; i++) { ... },
\* from iteration n = i + j * width on.
RECURSIVE ProjectLoop(_, _, _, _, _, _, _, _, _)
ProjectLoop(data, image, width, height, cx, cy, fx, fy, n) ==
  IF n >= width * height THEN data
  ELSE LET i == n % width
           j == n \div width
       IN  ProjectLoop(StorePoint(data, i + j * width,
                                  Point(image, width, i, j, cx, cy, fx, fy)),
                       image, width, height, cx, cy, fx, fy, n + 1)

\* The accesses of the loop from iteration n on, in program order: the
\* indices of image[] it reads and the float offsets of data it writes.
RECURSIVE LoopReads(_, _, _)
LoopReads(width, height, n) ==
  IF n >= width * height THEN <<>>
  ELSE LET i == n % width
           j == n \div width
       IN  <<i + j * width>> \o LoopReads(width, height, n + 1)

RECURSIVE LoopWrites(_, _, _)
LoopWrites(width, height, n) ==
  IF n >= width * height THEN <<>>
  ELSE LET i == n % width
           j == n \div width
       IN  PointSlots(i + j * width) \o LoopWrites(width, height, n + 1)

publishPointCloud(image, msg, info, t) ==
  IF image.res = "buffer"
  THEN [msg |-> [msg EXCEPT !.stamp = t,
                            !.data = ProjectLoop(msg.data, image.px,
                                                 info.width, info.height,
                                                 info.k[2 + 1], info.k[5 + 1],
                                                 info.k[0 + 1], info.k[4 + 1], 0)],
        ev |-> <<"cloud">>]
  ELSE [msg |-> msg, ev |-> <<>>]

---------------------------------------------------------------------------
(* Ros2RangeFinder::step                                                   *)

\* mImagePublisher->get_subscription_count() > 0
ShouldBeEnabledOffByOne(s) == s.image > 1
ShouldBeEnabledAnyTopic(s) == s.image > 0 \/ s.cloud > 0 \/ s.info > 0
ShouldBeEnabled(s) == s.image > 0

\* if (mIsEnabled) { publishImage(); publishPointCloud(); }
PublishesInverted(enabled) == ~enabled
PublishesAlways(enabled) == TRUE
Publishes(enabled) == enabled

\* Faulty variants of UpdateActivation: a command on every step (level-triggered),
\* and no early return under mAlwaysOn.
UpdateActivationLevel(alwaysOn, enabled, s) ==
  IF alwaysOn THEN [en |-> enabled, ev |-> <<>>, read |-> -1]
  ELSE [en |-> ShouldBeEnabled(s),
        ev |-> <<IF ShouldBeEnabled(s) THEN "enable" ELSE "disable">>,
        read |-> s.image]
UpdateActivationNoReturn(alwaysOn, enabled, s) ==
  IF ShouldBeEnabled(s) # enabled
  THEN [en |-> ShouldBeEnabled(s),
        ev |-> <<IF ShouldBeEnabled(s) THEN "enable" ELSE "disable">>,
        read |-> s.image]
  ELSE [en |-> enabled, ev |-> <<>>, read |-> s.image]

\* Faulty variant: the command is issued but mIsEnabled is not updated.
UpdateActivationNoStore(alwaysOn, enabled, s) ==
  IF alwaysOn THEN [en |-> enabled, ev |-> <<>>, read |-> -1]
  ELSE IF ShouldBeEnabled(s) # enabled
       THEN [en |-> enabled,
             ev |-> <<IF ShouldBeEnabled(s) THEN "enable" ELSE "disable">>,
             read |-> s.image]
       ELSE [en |-> enabled, ev |-> <<>>, read |-> s.image]

\* if (mAlwaysOn) return;  then the enable/disable block
UpdateActivation(alwaysOn, enabled, s) ==
  IF alwaysOn THEN [en |-> enabled, ev |-> <<>>, read |-> -1]
  ELSE LET shouldBeEnabled == ShouldBeEnabled(s)
       IN  IF shouldBeEnabled # enabled
           THEN [en |-> shouldBeEnabled,
                 ev |-> <<IF shouldBeEnabled THEN "enable" ELSE "disable">>,
                 read |-> s.image]
           ELSE [en |-> enabled, ev |-> <<>>, read |-> s.image]

\* The counts read so far still follow DemandScenario (-1: they do not).
Follow(m, read) ==
  IF read < 0 THEN m
  ELSE IF m >= 0 /\ m < Len(DemandScenario) /\ DemandScenario[m + 1] = read
       THEN m + 1
       ELSE -1

\* Faulty variant: a skipped step still runs the enable/disable block.
StepSkippedStillUpdates ==
  \E s \in SubsSet :
    LET act == UpdateActivation(mAlwaysOn, mIsEnabled, s)
    IN  /\ mIsEnabled' = act.en
        /\ cmds' = cmds \o act.ev
        /\ sensor' = Apply(sensor, act.ev)
        /\ matched' = Follow(matched, act.read)
        /\ demand' = (IF act.read < 0 THEN demand ELSE act.read > 0)
        /\ changes' = (IF act.read >= 0 /\ (act.read > 0) # demand
                       THEN changes + 1 ELSE changes)
        /\ last' = [NoStep EXCEPT !.read = act.read, !.ev = act.ev]
        /\ UNCHANGED <<pc, mAlwaysOn, mImageMessage, mCameraInfoMessage,
                       mPointCloudMessage, infoPublished>>

\* if (!preStep()) return;
StepSkipped ==
  /\ last' = NoStep
  /\ UNCHANGED <<pc, sensor, mAlwaysOn, mIsEnabled, mImageMessage,
                 mCameraInfoMessage, mPointCloudMessage, cmds, infoPublished,
                 matched, demand, changes>>

\* The two getRangeImage() calls of one step(), made by publishImage() and
\* by publishPointCloud(): each returns the current range image or NULL.
Queries(pub, n) ==
  IF pub
  THEN {<<getRangeImage(avail1, Frame(kind, n)), getRangeImage(avail2, Frame(kind, n))>> :
          avail1 \in BOOLEAN, avail2 \in BOOLEAN, kind \in FrameKinds}
  ELSE {<<NotCalled, NotCalled>>}

\* What the projection of a step wrote over: nothing written ("none"), the
\* zeroed buffer of init() ("first"), or an earlier point cloud with equal
\* ("same") or different ("other") data.
Overwrote(old, new, ev) ==
  IF ev = <<>> THEN "none"
  ELSE IF old.stamp = 0 THEN "first"
  ELSE IF old.data = new.data THEN "same" ELSE "other"

\* Faulty variant: the camera info is stamped and published again with
\* every frame.
StepRunRepublish(q1, q2) ==
  \E im \in {publishImage(q1, mImageMessage, now')},
     cl \in {publishPointCloud(q2, mPointCloudMessage, mCameraInfoMessage, now')} :
      \E s \in SubsSet :
        LET act == UpdateActivation(mAlwaysOn, mIsEnabled, s)
        IN  /\ mImageMessage' = im.msg
            /\ mPointCloudMessage' = cl.msg
            /\ mIsEnabled' = act.en
            /\ cmds' = cmds \o act.ev
            /\ sensor' = Apply(sensor, act.ev)
            /\ matched' = Follow(matched, act.read)
            /\ demand' = (IF act.read < 0 THEN demand ELSE act.read > 0)
            /\ changes' = (IF act.read >= 0 /\ (act.read > 0) # demand
                           THEN changes + 1 ELSE changes)
            /\ last' = [ran |-> TRUE, wasEnabled |-> mIsEnabled, subs |-> s,
                        read |-> act.read, q1 |-> q1, q2 |-> q2,
                        ev |-> im.ev \o cl.ev \o act.ev,
                        over |-> Overwrote(mPointCloudMessage, cl.msg, cl.ev)]
            /\ mCameraInfoMessage' =
                 (IF im.ev = <<>> THEN mCameraInfoMessage
                  ELSE [mCameraInfoMessage EXCEPT !.stamp = now'])
            /\ infoPublished' =
                 (IF im.ev = <<>> THEN infoPublished ELSE infoPublished + 1)
            /\ UNCHANGED <<pc, mAlwaysOn>>

StepRun(q1, q2) ==
  \E im \in {publishImage(q1, mImageMessage, now')},
     cl \in {publishPointCloud(q2, mPointCloudMessage, mCameraInfoMessage, now')} :
      \E s \in SubsSet :
        LET act == UpdateActivation(mAlwaysOn, mIsEnabled, s)
        IN  /\ mImageMessage' = im.msg
            /\ mPointCloudMessage' = cl.msg
            /\ mIsEnabled' = act.en
            /\ cmds' = cmds \o act.ev
            /\ sensor' = Apply(sensor, act.ev)
            /\ matched' = Follow(matched, act.read)
            /\ demand' = (IF act.read < 0 THEN demand ELSE act.read > 0)
            /\ changes' = (IF act.read >= 0 /\ (act.read > 0) # demand
                           THEN changes + 1 ELSE changes)
            /\ last' = [ran |-> TRUE, wasEnabled |-> mIsEnabled, subs |-> s,
                        read |-> act.read, q1 |-> q1, q2 |-> q2,
                        ev |-> im.ev \o cl.ev \o act.ev,
                        over |-> Overwrote(mPointCloudMessage, cl.msg, cl.ev)]
            /\ UNCHANGED <<pc, mAlwaysOn, mCameraInfoMessage, infoPublished>>

step ==
  /\ pc = "ready"
  /\ now < MaxTicks
  /\ now' = now + 1
  /\ \E preStep \in BOOLEAN :
       IF ~preStep THEN StepSkipped
       ELSE \E q \in Queries(Publishes(mIsEnabled), sensor.width * sensor.height) :
              StepRun(q[1], q[2])

---------------------------------------------------------------------------
(* The plugin after construction, with the device the robot holds (or none *)
(* under that name).                                                       *)

Devices ==
  [isNull : {FALSE}, width : Widths, height : Heights, fovTan : FovTans,
   enabled : {FALSE}]
  \cup {[isNull |-> TRUE, width |-> 0, height |-> 0, fovTan |-> <<1, 1>>,
         enabled |-> FALSE]}

Init ==
  /\ pc = "constructed"
  /\ sensor \in Devices
  /\ mAlwaysOn = FALSE
  /\ mIsEnabled = FALSE
  /\ mImageMessage = DefaultImage
  /\ mCameraInfoMessage = DefaultCameraInfo
  /\ mPointCloudMessage = DefaultPointCloud
  /\ now = 0
  /\ cmds = <<>>
  /\ infoPublished = 0
  /\ last = NoStep
  /\ matched = 0
  /\ demand = FALSE
  /\ changes = 0

Next == init \/ step

Spec == Init /\ [][Next]_vars

\* The projection as a function of the calibration record it reads: the
\* plugin as init() leaves it, always on, with the focal lengths of
\* mCameraInfoMessage.k drawn from FocalValues.
FocalValues == {One, FInt(2)}

WithFocal(info, fx, fy) ==
  [info EXCEPT !.k[0 + 1] = fx, !.k[4 + 1] = fy, !.p[0 + 1] = fx, !.p[5 + 1] = fy]

InitProj ==
  /\ pc = "ready"
  /\ sensor \in [isNull : {FALSE}, width : Widths, height : Heights,
                 fovTan : {<<1, 1>>}, enabled : {TRUE}]
  /\ mAlwaysOn = TRUE
  /\ mIsEnabled = TRUE
  /\ mImageMessage = InitImage(sensor.width, sensor.height)
  /\ \E fx \in FocalValues, fy \in FocalValues :
       mCameraInfoMessage =
         WithFocal(InitCameraInfo(sensor.width, sensor.height, One, 0), fx, fy)
  /\ mPointCloudMessage = InitPointCloud(sensor.width, sensor.height)
  /\ now = 0
  /\ cmds = <<"enable">>
  /\ infoPublished = 1
  /\ last = NoStep
  /\ matched = 0
  /\ demand = FALSE
  /\ changes = 0

SpecProj == InitProj /\ [][step]_vars

\* init() alone, over a wider range of devices: every resolution up to
\* MaxCalDim x MaxCalDim and tan(0.5 * fov) in CalFovTans.
CalFovTans == {<<0, 1>>, <<1, 2>>, <<1, 1>>, <<3, 2>>, <<2, 1>>}

CalDevices ==
  [isNull : {FALSE}, width : 1..MaxCalDim, height : 1..MaxCalDim,
   fovTan : CalFovTans, enabled : {FALSE}]
  \cup {[isNull |-> TRUE, width |-> 0, height |-> 0, fovTan |-> <<1, 1>>,
         enabled |-> FALSE]}

InitCal ==
  /\ pc = "constructed"
  /\ sensor \in CalDevices
  /\ mAlwaysOn = FALSE
  /\ mIsEnabled = FALSE
  /\ mImageMessage = DefaultImage
  /\ mCameraInfoMessage = DefaultCameraInfo
  /\ mPointCloudMessage = DefaultPointCloud
  /\ now = 0
  /\ cmds = <<>>
  /\ infoPublished = 0
  /\ last = NoStep
  /\ matched = 0
  /\ demand = FALSE
  /\ changes = 0

SpecCal == InitCal /\ [][init]_vars

---------------------------------------------------------------------------
(* What a step() call did.                                                 *)

Has(ev, e) == \E n \in 1..Len(ev) : ev[n] = e
IsCommand(e) == e \in {"enable", "disable"}
Commands(ev) == SelectSeq(ev, IsCommand)
Ready == pc = "ready"

\* The commands issued once the first n counts of DemandScenario were read.
ScenarioCommands(n) ==
  IF n < 3 THEN <<>> ELSE IF n < 5 THEN <<"enable">> ELSE <<"enable", "disable">>

---------------------------------------------------------------------------
(* Claims.                                                                 *)

\* C1: with alwaysOn = false an executed step() issues a command (one, and
\* the one matching the demand) exactly when consumerCount > 0 differs from
\* the flag held at its start, so the commands issued are as many as the
\* changes of the demand read; and the counts 0,0,3,3,0 read from the
\* disabled start issue exactly an enable in the third step and a disable in
\* the fifth.
C1_EdgeTriggered ==
  (Ready /\ ~mAlwaysOn) =>
    /\ last.ran =>
         /\ Commands(last.ev) # <<>> <=> ((last.subs.image > 0) # last.wasEnabled)
         /\ Len(Commands(last.ev)) <= 1
         /\ Has(last.ev, "enable") => last.subs.image > 0
         /\ Has(last.ev, "disable") => last.subs.image = 0
    /\ Len(cmds) = changes
    /\ matched >= 0 =>
         /\ cmds = ScenarioCommands(matched)
         /\ (last.ran /\ matched = 3) => Commands(last.ev) = <<"enable">>
         /\ (last.ran /\ matched = 5) => Commands(last.ev) = <<"disable">>
         /\ (last.ran /\ matched \in {1, 2, 4}) => Commands(last.ev) = <<>>

C1_Witness ==
  Ready /\ ~mAlwaysOn /\ matched = 5 /\ last.ran /\ cmds = <<"enable", "disable">>

\* C2: with alwaysOn = true init() issues exactly one enable, and no step()
\* issues a command or clears the flag, whatever the consumer counts.
C2_AlwaysOn ==
  (Ready /\ mAlwaysOn) =>
    /\ cmds = <<"enable">>
    /\ mIsEnabled
    /\ sensor.enabled
    /\ Commands(last.ev) = <<>>

C2_Witness ==
  Ready /\ mAlwaysOn /\ now >= 2 /\ last.ran /\ last.subs.image = 0 /\ mIsEnabled

\* C3: in a step() that starts enabled, a getRangeImage() that returns NULL
\* leaves its artifact unpublished and its message (data and stamp) as it
\* was; with both NULL nothing is published, and the step disables the
\* device only if the demand is gone: while alwaysOn or consumerCount > 0
\* the flag stays set and no command is issued.
C3_SkipOnUnavailable ==
  [][(Ready /\ mIsEnabled /\ last'.ran) =>
       /\ last'.q1.res = "null" =>
            ~Has(last'.ev, "image") /\ mImageMessage' = mImageMessage
       /\ last'.q2.res = "null" =>
            ~Has(last'.ev, "cloud") /\ mPointCloudMessage' = mPointCloudMessage
       /\ (last'.q1.res = "null" /\ last'.q2.res = "null") =>
            /\ Commands(last'.ev) = last'.ev
            /\ Has(last'.ev, "disable") => (~mAlwaysOn /\ last'.subs.image = 0)
            /\ (mAlwaysOn \/ last'.subs.image > 0) =>
                 (mIsEnabled' /\ cmds' = cmds /\ last'.ev = <<>>)]_vars

C3_Witness ==
  /\ Ready /\ last.ran /\ last.wasEnabled /\ mIsEnabled
  /\ last.q1.res = "null" /\ last.q2.res = "null"
  /\ mImageMessage.stamp > 0 /\ mImageMessage.stamp < now
  /\ mPointCloudMessage.stamp > 0 /\ mPointCloudMessage.stamp < now

\* C4: in every step() the depth image is published if and only if the point
\* cloud is published.
C4_AllOrNothing ==
  (Ready /\ last.ran) => (Has(last.ev, "image") <=> Has(last.ev, "cloud"))

\* C5: after a step() that publishes both artifacts, the x component of
\* every point idx of the point cloud equals pixel idx of the depth image.
C5_SameSnapshot ==
  (Ready /\ last.ran /\ Has(last.ev, "image") /\ Has(last.ev, "cloud")) =>
    \A idx \in 0..(mImageMessage.width * mImageMessage.height - 1) :
      mPointCloudMessage.data[idx * 3 + 1] = mImageMessage.data[idx + 1]

C5_Witness ==
  /\ Ready /\ last.ran /\ Has(last.ev, "image") /\ Has(last.ev, "cloud")
  /\ mImageMessage.width * mImageMessage.height >= 2
  /\ mImageMessage.data[1] # mImageMessage.data[2]

\* C6: a null sensor handle or a degenerate field of view (tan(0.5 * fov)
\* = 0) makes init() abort, and the calibration record is never published.
C6_PreconditionFatal ==
  (pc # "constructed" /\ (sensor.isNull \/ IsZero(TanHalfFov(sensor)))) =>
    /\ pc \in {"aborted", "crashed"}
    /\ infoPublished = 0

\* C7: with alwaysOn = false the flag after an executed step() equals
\* consumerCount > 0 for the count of that step; right after init() the flag
\* equals alwaysOn, with one enable issued if it is set and none otherwise.
C7_FlagFollowsDemand ==
  Ready =>
    /\ (~mAlwaysOn /\ last.ran) =>
         (mIsEnabled <=> last.subs.image > 0) /\ last.read = last.subs.image
    /\ now = 0 =>
         /\ mIsEnabled = mAlwaysOn
         /\ cmds = IF mAlwaysOn THEN <<"enable">> ELSE <<>>

C7_Witness ==
  Ready /\ ~mAlwaysOn /\ last.ran /\ last.subs.image = 1 /\ mIsEnabled
    /\ ~last.wasEnabled

\* C8: what a step() emits is decided by the flag held at its start: started
\* disabled it queries and publishes nothing, even when the demand rises in
\* it; started enabled it publishes each artifact whose buffer is available,
\* and any command of the step comes after its publications.
C8_EmissionByStartState ==
  (Ready /\ last.ran) =>
    /\ ~last.wasEnabled =>
         /\ last.q1 = NotCalled /\ last.q2 = NotCalled
         /\ ~Has(last.ev, "image") /\ ~Has(last.ev, "cloud")
    /\ last.wasEnabled =>
         /\ Has(last.ev, "image") <=> last.q1.res = "buffer"
         /\ Has(last.ev, "cloud") <=> last.q2.res = "buffer"
    /\ \A m, n \in 1..Len(last.ev) :
         (IsCommand(last.ev[m]) /\ ~IsCommand(last.ev[n])) => n < m
    /\ (~mAlwaysOn /\ ~last.wasEnabled /\ last.subs.image > 0) =>
         last.ev = <<"enable">>

C8_Witness ==
  /\ Ready /\ ~mAlwaysOn /\ last.ran /\ last.wasEnabled /\ last.subs.image = 0
  /\ last.ev = <<"image", "cloud", "disable">>

\* C9: the demand is the consumer count of the depth-image topic alone: with
\* alwaysOn = false the plugin starts disabled, and a step() that starts
\* disabled and finds no depth-image consumer leaves it disabled, issues no
\* command and publishes nothing, however many consumers the point-cloud
\* and camera-info topics have.
C9_ImageDemandOnly ==
  /\ []((Ready /\ ~mAlwaysOn /\ now = 0) => (~mIsEnabled /\ cmds = <<>>))
  /\ [][(Ready /\ ~mAlwaysOn /\ ~mIsEnabled /\ last'.ran /\ last'.subs.image = 0) =>
          /\ ~mIsEnabled' /\ ~sensor'.enabled
          /\ cmds' = cmds
          /\ last'.ev = <<>>
          /\ mImageMessage' = mImageMessage
          /\ mPointCloudMessage' = mPointCloudMessage]_vars

C9_Witness ==
  /\ Ready /\ ~mAlwaysOn /\ now >= 2 /\ last.ran /\ ~last.wasEnabled
  /\ last.subs.image = 0 /\ last.subs.cloud > 0 /\ last.subs.info > 0
  /\ ~mIsEnabled /\ cmds = <<>>

\* The calibration and raw buffer of the worked example.
C10_Example ==
  /\ mCameraInfoMessage.width = 2 /\ mCameraInfoMessage.height = 1
  /\ mCameraInfoMessage.k[1] = One /\ mCameraInfoMessage.k[5] = One
  /\ mCameraInfoMessage.k[3] = One /\ mCameraInfoMessage.k[6] = Half
  /\ last.q2.px = <<FInt(2), FInt(2)>>

\* C10: a step() that publishes the point cloud stores, for every pixel
\* (i, j), the point (x, -(i - cx) * x / fx, -(j - cy) * x / fy) with
\* x = rawBuffer[i + j * width] at point index i + j * width; for width 2,
\* height 1, fx = fy = 1, cx = 1, cy = 0.5 and raw buffer [2, 2] the points
\* are (2, 2, 1) and (2, 0, 1).
C10_Projection ==
  (Ready /\ last.ran /\ Has(last.ev, "cloud")) =>
    LET width == mCameraInfoMessage.width
        height == mCameraInfoMessage.height
        fx == mCameraInfoMessage.k[1]
        cx == mCameraInfoMessage.k[3]
        fy == mCameraInfoMessage.k[5]
        cy == mCameraInfoMessage.k[6]
        raw == last.q2.px
        data == mPointCloudMessage.data
    IN  /\ Len(data) = 3 * width * height
        /\ \A i \in 0..(width - 1), j \in 0..(height - 1) :
             LET idx == i + j * width
                 x == raw[idx + 1]
             IN  /\ data[3 * idx + 1] = x
                 /\ data[3 * idx + 2] = FDiv(FMul(FNeg(FSub(FInt(i), cx)), x), fx)
                 /\ data[3 * idx + 3] = FDiv(FMul(FNeg(FSub(FInt(j), cy)), x), fy)
        /\ C10_Example =>
             \A n \in 1..6 :
               FEq(data[n], <<FInt(2), FInt(2), One, FInt(2), Zero, One>>[n])

C10_Witness ==
  Ready /\ last.ran /\ Has(last.ev, "cloud") /\ C10_Example

\* C11: the calibration record is published once, by init(); no step()
\* publishes or changes it, so the fx, fy, cx, cy the projection reads are
\* the ones init() derived from the device, in every step.
C11_CalibrationOnce ==
  /\ [](Ready =>
          /\ infoPublished = 1
          /\ mCameraInfoMessage.stamp = 0
          /\ mCameraInfoMessage.width = sensor.width
          /\ mCameraInfoMessage.height = sensor.height
          /\ mCameraInfoMessage.k[1] = FocalLength(sensor.width, TanHalfFov(sensor))
          /\ mCameraInfoMessage.k[5] = FocalLength(sensor.height, TanHalfFov(sensor))
          /\ mCameraInfoMessage.k[3] = PrincipalPoint(sensor.width)
          /\ mCameraInfoMessage.k[6] = PrincipalPoint(sensor.height))
  /\ [](pc = "constructed" => infoPublished = 0)
  /\ [][Ready => (mCameraInfoMessage' = mCameraInfoMessage
                  /\ infoPublished' = infoPublished)]_vars

C11_Witness ==
  /\ Ready /\ now >= 3 /\ last.ran /\ Has(last.ev, "image") /\ Has(last.ev, "cloud")
  /\ last.over = "other" /\ infoPublished = 1

\* C12: the point-cloud data a step() publishes depends on the raw buffer
\* (and the calibration) alone: it is what the projection writes into a
\* freshly zeroed buffer, whatever the buffer held before, so two emitting
\* steps with the same raw buffer publish identical data.
C12_Idempotent ==
  (Ready /\ last.ran /\ Has(last.ev, "cloud")) =>
    mPointCloudMessage.data =
         ProjectLoop(Zeros(3 * mCameraInfoMessage.width * mCameraInfoMessage.height),
                     last.q2.px, mCameraInfoMessage.width, mCameraInfoMessage.height,
                     mCameraInfoMessage.k[3], mCameraInfoMessage.k[6],
                     mCameraInfoMessage.k[1], mCameraInfoMessage.k[5], 0)

C12_Witness ==
  /\ Ready /\ last.ran /\ Has(last.ev, "cloud") /\ last.over = "same"
  /\ last.q2.px[1].k = "inf"

\* C13: the depth image a step() publishes is the raw buffer of that step,
\* element for element over all width * height pixels (4 * width * height
\* bytes), non-finite values included.
C13_PureCopy ==
  (Ready /\ last.ran /\ Has(last.ev, "image")) =>
    /\ Len(mImageMessage.data) = sensor.width * sensor.height
    /\ DataSize(mImageMessage) = 4 * sensor.width * sensor.height
    /\ \A idx \in 0..(sensor.width * sensor.height - 1) :
         mImageMessage.data[idx + 1] = last.q1.px[idx + 1]
    /\ mImageMessage.stamp = now

C13_Witness ==
  /\ Ready /\ last.ran /\ Has(last.ev, "image")
  /\ sensor.width * sensor.height >= 3
  /\ mImageMessage.data[1].k = "inf" /\ mImageMessage.data[3] = FInt(2)

\* C14: after init() the layouts are fixed in every state: the depth image
\* holds 4 * width * height bytes in rows of 4 * width, the point cloud
\* 12 * width * height bytes in points of 12 bytes and rows of 12 * width.
C14_Layout ==
  Ready =>
    /\ DataSize(mImageMessage) = 4 * sensor.width * sensor.height
    /\ mImageMessage.step = 4 * sensor.width
    /\ mImageMessage.width = sensor.width /\ mImageMessage.height = sensor.height
    /\ mImageMessage.encoding = "32FC1" /\ ~mImageMessage.is_bigendian
    /\ 4 * Len(mPointCloudMessage.data) = 12 * sensor.width * sensor.height
    /\ mPointCloudMessage.point_step = 12
    /\ mPointCloudMessage.row_step = 12 * sensor.width
    /\ mPointCloudMessage.width = sensor.width
    /\ mPointCloudMessage.height = sensor.height
    /\ ~mPointCloudMessage.is_bigendian
    /\ Len(mPointCloudMessage.fields) = 3
    /\ \A c \in 1..3 : mPointCloudMessage.fields[c].offset = 4 * (c - 1)

C14_Witness ==
  /\ Ready /\ now >= 2 /\ last.ran /\ Has(last.ev, "image") /\ Has(last.ev, "cloud")
  /\ sensor.width = 2 /\ sensor.height = 2 /\ last.over = "same"

\* C15: for every device with width, height > 0 and 0 < fov < pi (so that
\* tan(0.5 * fov) is positive and finite), init() leaves in k and p the
\* principal point (width / 2, height / 2) as exact fractions, odd dimensions
\* included, the focal lengths 0.5 * width / tan(0.5 * fov) and
\* 0.5 * height / tan(0.5 * fov), and these two are equal exactly when
\* width = height.
C15_Calibration ==
  (Ready /\ sensor.fovTan[1] > 0) =>
    LET w == sensor.width
        h == sensor.height
        tn == sensor.fovTan[1]
        td == sensor.fovTan[2]
        k == mCameraInfoMessage.k
        p == mCameraInfoMessage.p
    IN  /\ k[3] = Fin(0, w, 2)
        /\ k[6] = Fin(0, h, 2)
        /\ FMul(k[3], FInt(2)) = FInt(w)
        /\ FMul(k[6], FInt(2)) = FInt(h)
        /\ k[1] = Fin(0, w * td, 2 * tn)
        /\ k[5] = Fin(0, h * td, 2 * tn)
        /\ (k[1] = k[5]) <=> (w = h)
        /\ <<p[1], p[3], p[6], p[7]>> = <<k[1], k[3], k[5], k[6]>>

C15_Witness ==
  /\ Ready
  /\ sensor.width = 3
  /\ sensor.height = 4
  /\ sensor.fovTan = <<3, 2>>
  /\ mCameraInfoMessage.k[3] = Fin(0, 3, 2)
  /\ mCameraInfoMessage.k[1] = One
  /\ mCameraInfoMessage.k[1] # mCameraInfoMessage.k[5]

\* C16: a step() that starts with the sensor disabled publishes neither a
\* depth image nor a point cloud, leaves both messages (data and stamp) as
\* they were and does not call getRangeImage(); a step() changes a message
\* only when it starts enabled, runs, and getRangeImage() returned a buffer
\* to the publishing function of that message.
C16_StaleWhenDisabled ==
  [][Ready =>
       /\ ~mIsEnabled =>
            /\ mImageMessage' = mImageMessage
            /\ mPointCloudMessage' = mPointCloudMessage
            /\ ~Has(last'.ev, "image") /\ ~Has(last'.ev, "cloud")
            /\ last'.q1 = NotCalled /\ last'.q2 = NotCalled
       /\ mImageMessage' # mImageMessage =>
            (mIsEnabled /\ sensor.enabled /\ last'.ran /\ last'.q1.res = "buffer")
       /\ mPointCloudMessage' # mPointCloudMessage =>
            (mIsEnabled /\ sensor.enabled /\ last'.ran /\ last'.q2.res = "buffer")]_vars

C16_Witness ==
  /\ Ready /\ last.ran /\ ~last.wasEnabled /\ last.subs.image = 0
  /\ mImageMessage.stamp > 0 /\ mImageMessage.stamp < now - 1
  /\ mPointCloudMessage.stamp > 0 /\ mPointCloudMessage.stamp < now - 1
  /\ mImageMessage.data # Zeros(sensor.width * sensor.height)

\* C17: once init() has started, mIsEnabled equals the state of the device
\* as the commands issued so far leave it: enabled exactly when the last
\* command was enable, disabled when there was none. The commands issued
\* alternate enable, disable, enable, ... beginning with enable, and each
\* step() issues at most one: enable only when the device is disabled,
\* disable only when it is enabled.
C17_FlagMatchesDevice ==
  /\ [](pc # "constructed" =>
          /\ mIsEnabled = sensor.enabled
          /\ mIsEnabled = (cmds # <<>> /\ cmds[Len(cmds)] = "enable")
          /\ \A n \in 1..Len(cmds) :
               cmds[n] = (IF n % 2 = 1 THEN "enable" ELSE "disable"))
  /\ [][/\ Len(cmds') <= Len(cmds) + 1
        /\ SubSeq(cmds', 1, Len(cmds)) = cmds
        /\ Len(cmds') = Len(cmds) + 1 =>
             /\ cmds'[Len(cmds')] = "enable" => (~sensor.enabled /\ ~mIsEnabled)
             /\ cmds'[Len(cmds')] = "disable" => (sensor.enabled /\ mIsEnabled)]_vars

C17_Witness ==
  /\ Ready /\ ~mAlwaysOn /\ ~mIsEnabled /\ ~sensor.enabled
  /\ cmds = <<"enable", "disable", "enable", "disable">>

\* C18: a step() whose preStep() returns false does nothing: it publishes
\* nothing, does not call getRangeImage(), does not read the consumer count,
\* issues no command, and leaves mIsEnabled, the device and all three
\* messages as they were. The count is therefore read only in steps that
\* run, and with alwaysOn = false the flag after a step that runs is the
\* demand read in that step, whatever happened during the skipped ones.
C18_SkippedStepNoEffect ==
  [][Ready =>
       /\ ~last'.ran =>
            /\ last'.ev = <<>>
            /\ last'.read = -1
            /\ last'.q1 = NotCalled /\ last'.q2 = NotCalled
            /\ cmds' = cmds
            /\ mIsEnabled' = mIsEnabled
            /\ sensor' = sensor
            /\ mImageMessage' = mImageMessage
            /\ mPointCloudMessage' = mPointCloudMessage
            /\ mCameraInfoMessage' = mCameraInfoMessage
            /\ infoPublished' = infoPublished
            /\ <<demand', changes', matched'>> = <<demand, changes, matched>>
       /\ (last'.read >= 0 \/ cmds' # cmds \/ mIsEnabled' # mIsEnabled) => last'.ran
       /\ (last'.ran /\ ~mAlwaysOn) =>
            /\ last'.read = last'.subs.image
            /\ mIsEnabled' = (last'.read > 0)]_vars

C18_Witness ==
  /\ Ready /\ ~last.ran /\ ~mAlwaysOn /\ mIsEnabled /\ sensor.enabled
  /\ now >= 3
  /\ mImageMessage.stamp = now - 1
  /\ mPointCloudMessage.stamp = now - 1
  /\ cmds = <<"enable">>

\* C19: the loop of publishPointCloud() reads each pixel index
\* 0 .. width * height - 1 of the raw buffer once and writes each of the
\* 3 * width * height floats of the point-cloud data once, every access
\* inside its buffer (width * height floats read, 12 * width * height bytes
\* written); after a step() that published a point cloud every point is
\* the projection of this step's pixel, none is left from an earlier step.
C19_EveryPointRewritten ==
  Ready =>
    LET w == mCameraInfoMessage.width
        h == mCameraInfoMessage.height
        k == mCameraInfoMessage.k
        reads == LoopReads(w, h, 0)
        writes == LoopWrites(w, h, 0)
        bytes == DataSize(mPointCloudMessage)
    IN  /\ bytes = 12 * w * h
        /\ \A n \in 1..Len(writes) :
             writes[n] >= 0 /\ 4 * writes[n] + 4 <= bytes
        /\ \A slot \in 0..(3 * w * h - 1) :
             Cardinality({n \in 1..Len(writes) : writes[n] = slot}) = 1
        /\ \A idx \in 0..(w * h - 1) :
             /\ Cardinality({n \in 1..Len(reads) : reads[n] = idx}) = 1
             /\ \A c \in 1..3 : \E n \in 1..Len(writes) : writes[n] = idx * 3 + (c - 1)
        /\ \A n \in 1..Len(reads) :
             reads[n] >= 0 /\ reads[n] < sensor.width * sensor.height
        /\ (last.ran /\ Has(last.ev, "cloud")) =>
             /\ Len(last.q2.px) = sensor.width * sensor.height
             /\ \A idx \in 0..(w * h - 1) :
                  <<mPointCloudMessage.data[idx * 3 + 1],
                    mPointCloudMessage.data[idx * 3 + 2],
                    mPointCloudMessage.data[idx * 3 + 3]>>
                    = Point(last.q2.px, w, idx % w, idx \div w,
                            k[3], k[6], k[1], k[5])

C19_Witness ==
  /\ Ready /\ last.ran /\ Has(last.ev, "cloud") /\ last.over = "other"
  /\ sensor.width = 2 /\ sensor.height = 2
  /\ LoopWrites(2, 2, 0) = <<0, 1, 2, 3, 4, 5, 6, 7, 8, 9, 10, 11>>
  /\ mPointCloudMessage.stamp = now

====
